---- MODULE Spec2Model ----
(***************************************************************************)
(* A model of bloom.c: a Bloom filter made of a packed bit array `a` of m  *)
(* bits and a table of k caller-supplied hash functions, with the four     *)
(* operations bloom_new, bloom_del, bloom_add and bloom_check.             *)
(***************************************************************************)
EXTENDS Integers, Sequences, FiniteSets, TLC

VARIABLES
    bloom,   \* the filter the caller holds (struct bloom_t), or NULL
    heap,    \* the blocks obtained from malloc/calloc and not yet freed
    added,   \* history: the keys bloom_add was called with on this filter
    ret,     \* history: the last call, its arguments and what it returned
    bloom2,  \* a second filter, built and fed like the first (SpecPair)
    ret2,    \* history: what the last bloom_check on bloom2 returned
    chk      \* the frame of each concurrent caller of bloom_check (SpecConc)

vars == <<bloom, heap, added, ret, bloom2, ret2, chk>>

-----------------------------------------------------------------------------
(* Bounds of the model and the inputs drawn from them.                      *)

MaxSize == 9
MaxHashes == 2
NumKeys == 3

CHAR_BIT == 8

\* The strings handed to bloom_add and bloom_check.
Keys == 1..NumKeys

\* The hash functions a caller can supply.
HashNames == {"collide", "linear", "high"}

\* The variadic argument lists of bloom_new: num_hashes >= 1 functions.
HashLists == UNION {[1..k -> HashNames] : k \in 1..MaxHashes}

Sizes == 1..MaxSize

\* bloom->hash[n](s): a deterministic function of the string, whose result
\* fits an unsigned int, so that the cast in bloom_add and bloom_check keeps
\* the value. "collide" maps every string to the same value.
hashfp(f, s) ==
    CASE f = "collide" -> 7
      [] f = "linear"  -> 5 * s + 3
      [] f = "high"    -> 2147483647 - s

-----------------------------------------------------------------------------
(* Bytes and the bit macros.                                                *)

RECURSIVE BitOr(_, _)
BitOr(x, y) ==
    IF x = 0 THEN y
    ELSE IF y = 0 THEN x
    ELSE (IF x % 2 = 1 \/ y % 2 = 1 THEN 1 ELSE 0) + 2 * BitOr(x \div 2, y \div 2)

RECURSIVE BitAnd(_, _)
BitAnd(x, y) ==
    IF x = 0 \/ y = 0 THEN 0
    ELSE (IF x % 2 = 1 /\ y % 2 = 1 THEN 1 ELSE 0) + 2 * BitAnd(x \div 2, y \div 2)

RECURSIVE BitXor(_, _)
BitXor(x, y) ==
    IF x = 0 THEN y
    ELSE IF y = 0 THEN x
    ELSE (IF (x % 2) # (y % 2) THEN 1 ELSE 0) + 2 * BitXor(x \div 2, y \div 2)

\* a[n/CHAR_BIT] = (1<<(n%CHAR_BIT)): the byte is overwritten, not or-ed.
SETBIT_assign(a, n) ==
    [a EXCEPT ![n \div CHAR_BIT] = 2 ^ (n % CHAR_BIT)]

\* a[n/CHAR_BIT] ^= (1<<(n%CHAR_BIT)): the bit is toggled.
SETBIT_xor(a, n) ==
    [a EXCEPT ![n \div CHAR_BIT] = BitXor(@, 2 ^ (n % CHAR_BIT))]

\* a[n/CHAR_BIT] |= (1<<(n/CHAR_BIT)): the shift takes the byte index.
SETBIT_div(a, n) ==
    [a EXCEPT ![n \div CHAR_BIT] = BitOr(@, 2 ^ (n \div CHAR_BIT))]

SETBIT(a, n) ==
    [a EXCEPT ![n \div CHAR_BIT] = BitOr(@, 2 ^ (n % CHAR_BIT))]

GETBIT(a, n) == BitAnd(a[n \div CHAR_BIT], 2 ^ (n % CHAR_BIT))

ROUND(size) == (size + CHAR_BIT - 1) \div CHAR_BIT

-----------------------------------------------------------------------------
(* Allocation.                                                              *)

\* What malloc(nmemb) may hold: the bytes are not initialised.
malloc_bytes(nmemb) == [0..(nmemb - 1) -> {0, 255}]

\* What calloc(nmemb, sizeof(char)) holds: every byte is zero.
calloc_bytes(nmemb) == {[i \in 0..(nmemb - 1) |-> 0]}

NoBytes == [i \in {} |-> 0]

NULL == [alloc |-> FALSE, m |-> 0, k |-> 0, a |-> NoBytes, hash |-> NoBytes]

Blocks == {"bloom_t", "a", "hash"}

\* The third failure path without free(bloom->a).
bloom_new_leak(size, num_hashes, hashes, avail, bytes) ==
    IF avail < 1 THEN [val |-> NULL, heap |-> {}]
    ELSE IF avail < 2 THEN [val |-> NULL, heap |-> {"bloom_t"} \ {"bloom_t"}]
    ELSE IF avail < 3 THEN [val |-> NULL, heap |-> {"bloom_t", "a"} \ {"bloom_t"}]
    ELSE [val  |-> [alloc |-> TRUE, m |-> size, k |-> num_hashes, a |-> bytes,
                    hash |-> [n \in 0..(num_hashes - 1) |-> hashes[n + 1]]],
          heap |-> {"bloom_t", "a", "hash"}]

\* bloom_new(size, num_hashes, ...): `avail` is the number of allocations
\* that succeed before one fails (3: none fails), `bytes` what calloc hands
\* back. The result is the pointer returned and the blocks left allocated.
bloom_new(size, num_hashes, hashes, avail, bytes) ==
    IF avail < 1 THEN [val |-> NULL, heap |-> {}]
    ELSE LET h1 == {"bloom_t"} IN
    IF avail < 2 THEN [val |-> NULL, heap |-> h1 \ {"bloom_t"}]
    ELSE LET h2 == h1 \cup {"a"} IN
    IF avail < 3 THEN [val |-> NULL, heap |-> (h2 \ {"a"}) \ {"bloom_t"}]
    ELSE [val  |-> [alloc |-> TRUE, m |-> size, k |-> num_hashes, a |-> bytes,
                    hash |-> [n \in 0..(num_hashes - 1) |-> hashes[n + 1]]],
          heap |-> h2 \cup {"hash"}]

-----------------------------------------------------------------------------
(* bloom_add and bloom_check.                                               *)

RECURSIVE add_loop(_, _, _)
add_loop(b, s, n) ==
    IF n < b.k
    THEN LET hash == hashfp(b.hash[n], s)
         IN  add_loop([b EXCEPT !.a = SETBIT(b.a, hash % b.m)], s, n + 1)
    ELSE b.a

\* for (n=1; ...): the first hash function is skipped.
bloom_add_skip(b, s) == add_loop(b, s, 1)

\* The bit array after bloom_add(b, s).
bloom_add(b, s) == add_loop(b, s, 0)

RECURSIVE check_loop(_, _, _)
check_loop(b, s, n) ==
    IF n < b.k
    THEN LET hash == hashfp(b.hash[n], s)
         IN  IF GETBIT(b.a, hash % b.m) = 0
             THEN [val |-> FALSE, evals |-> n + 1]
             ELSE check_loop(b, s, n + 1)
    ELSE [val |-> TRUE, evals |-> n]

\* The loop runs to the end and remembers whether a bit was clear.
RECURSIVE check_loop_full(_, _, _, _)
check_loop_full(b, s, n, ok) ==
    IF n < b.k
    THEN LET hash == hashfp(b.hash[n], s)
         IN  check_loop_full(b, s, n + 1, ok /\ GETBIT(b.a, hash % b.m) # 0)
    ELSE [val |-> ok, evals |-> n]

bloom_check_full(b, s) == check_loop_full(b, s, 0, TRUE)

\* bloom_check(b, s): the value returned and the number of hash functions
\* it called before returning.
bloom_check(b, s) == check_loop(b, s, 0)

-----------------------------------------------------------------------------
(* The calls of a single caller.                                            *)

NoRet == [op |-> "none", s |-> 0, val |-> FALSE, evals |-> 0,
          again |-> FALSE, changed |-> FALSE,
          size |-> 0, hashes |-> <<>>, avail |-> 0]

NoFrame == [pc |-> "idle", s |-> 0, n |-> 0, hash |-> 0, val |-> FALSE,
            a0 |-> NoBytes]

Procs == {"p1", "p2"}

Init ==
    /\ bloom = NULL
    /\ heap = {}
    /\ added = {}
    /\ ret = NoRet
    /\ bloom2 = NULL
    /\ ret2 = FALSE
    /\ chk = [p \in Procs |-> NoFrame]

New(size, hashes, avail, bytes) ==
    /\ ~bloom.alloc
    /\ LET r == bloom_new(size, Len(hashes), hashes, avail, bytes)
       IN  /\ bloom' = r.val
           /\ heap' = heap \cup r.heap
           /\ ret' = [NoRet EXCEPT !.op = "new", !.val = r.val.alloc,
                                   !.size = size, !.hashes = hashes,
                                   !.avail = avail]
    /\ added' = {}
    /\ UNCHANGED <<bloom2, ret2, chk>>

Del ==
    /\ bloom.alloc
    /\ bloom' = NULL
    /\ heap' = ((heap \ {"a"}) \ {"hash"}) \ {"bloom_t"}
    /\ added' = {}
    /\ ret' = [NoRet EXCEPT !.op = "del"]
    /\ UNCHANGED <<bloom2, ret2, chk>>

Add(s) ==
    /\ bloom.alloc
    /\ bloom' = [bloom EXCEPT !.a = bloom_add(bloom, s)]
    /\ added' = added \cup {s}
    /\ ret' = [NoRet EXCEPT !.op = "add", !.s = s, !.again = (s \in added),
                            !.changed = (bloom'.a # bloom.a)]
    /\ UNCHANGED <<heap, bloom2, ret2, chk>>

\* A bloom_check that sets the bits it looks at.
Check_set(s) ==
    /\ bloom.alloc
    /\ bloom' = [bloom EXCEPT !.a = bloom_add(bloom, s)]
    /\ ret' = [NoRet EXCEPT !.op = "check", !.s = s, !.val = TRUE,
                            !.evals = bloom.k]
    /\ UNCHANGED <<heap, added, bloom2, ret2, chk>>

Check(s) ==
    /\ bloom.alloc
    /\ LET r == bloom_check(bloom, s)
       IN  ret' = [NoRet EXCEPT !.op = "check", !.s = s, !.val = r.val,
                                !.evals = r.evals]
    /\ UNCHANGED <<bloom, heap, added, bloom2, ret2, chk>>

Next ==
    \/ \E size \in Sizes, hashes \in HashLists, avail \in 0..3 :
         \E bytes \in calloc_bytes(ROUND(size)) : New(size, hashes, avail, bytes)
    \/ Del
    \/ \E s \in Keys : Add(s)
    \/ \E s \in Keys : Check(s)

Spec == Init /\ [][Next]_vars

-----------------------------------------------------------------------------
(* Two filters built with the same size and the same hash functions and     *)
(* given the same calls. Each bloom_new makes its own allocations.          *)

PairNew(size, hashes, bytes1, bytes2) ==
    /\ ~bloom.alloc
    /\ bloom' = bloom_new(size, Len(hashes), hashes, 3, bytes1).val
    /\ bloom2' = bloom_new(size, Len(hashes), hashes, 3, bytes2).val
    /\ heap' = Blocks
    /\ added' = {}
    /\ ret' = [NoRet EXCEPT !.op = "new", !.val = TRUE, !.size = size,
                            !.hashes = hashes, !.avail = 3]
    /\ UNCHANGED <<ret2, chk>>

PairAdd(s) ==
    /\ bloom.alloc
    /\ bloom' = [bloom EXCEPT !.a = bloom_add(bloom, s)]
    /\ bloom2' = [bloom2 EXCEPT !.a = bloom_add(bloom2, s)]
    /\ added' = added \cup {s}
    /\ ret' = [NoRet EXCEPT !.op = "add", !.s = s, !.again = (s \in added),
                            !.changed = (bloom'.a # bloom.a)]
    /\ UNCHANGED <<heap, ret2, chk>>

PairCheck(s) ==
    /\ bloom.alloc
    /\ LET r == bloom_check(bloom, s)
       IN  ret' = [NoRet EXCEPT !.op = "check", !.s = s, !.val = r.val,
                                !.evals = r.evals]
    /\ ret2' = bloom_check(bloom2, s).val
    /\ UNCHANGED <<bloom, bloom2, heap, added, chk>>

PairNext ==
    \/ \E size \in Sizes, hashes \in HashLists :
         \E bytes1 \in calloc_bytes(ROUND(size)),
            bytes2 \in calloc_bytes(ROUND(size)) :
              PairNew(size, hashes, bytes1, bytes2)
    \/ \E s \in Keys : PairAdd(s)
    \/ \E s \in Keys : PairCheck(s)

SpecPair == Init /\ [][PairNext]_vars

-----------------------------------------------------------------------------
(* Callers of bloom_check running at once on one filter: each has its own   *)
(* s, n and hash, and a step is one hash evaluation or one bit read. No     *)
(* bloom_add runs while a bloom_check is in progress.                       *)

\* The sizes tried here: one byte exactly filled, and the largest.
ConcSizes == {CHAR_BIT, MaxSize}

ConcNew(size, hashes, bytes) ==
    /\ ~bloom.alloc
    /\ bloom' = bloom_new(size, Len(hashes), hashes, 3, bytes).val
    /\ heap' = Blocks
    /\ UNCHANGED <<added, ret, bloom2, ret2, chk>>

ConcAdd(s) ==
    /\ bloom.alloc
    /\ \A p \in Procs : chk[p].pc = "idle"
    /\ bloom' = [bloom EXCEPT !.a = bloom_add(bloom, s)]
    /\ UNCHANGED <<heap, added, ret, bloom2, ret2, chk>>

\* The call: n = 0, and the loop test comes next.
CheckCall(p, s) ==
    /\ bloom.alloc
    /\ chk[p].pc = "idle"
    /\ chk' = [chk EXCEPT ![p] = [NoFrame EXCEPT !.pc = "loop", !.s = s,
                                                 !.a0 = bloom.a]]
    /\ UNCHANGED <<bloom, heap, added, ret, bloom2, ret2>>

\* `static unsigned int hash`: one variable for all the callers.
CheckHash_static(p) ==
    /\ chk[p].pc = "loop"
    /\ chk[p].n < bloom.k
    /\ chk' = [q \in Procs |->
                 IF q = p
                 THEN [chk[q] EXCEPT !.pc = "read",
                                     !.hash = hashfp(bloom.hash[chk[p].n], chk[p].s)]
                 ELSE [chk[q] EXCEPT
                                     !.hash = hashfp(bloom.hash[chk[p].n], chk[p].s)]]
    /\ UNCHANGED <<bloom, heap, added, ret, bloom2, ret2>>

\* n < bloom->k: hash = (unsigned int)bloom->hash[n](s)
CheckHash(p) ==
    /\ chk[p].pc = "loop"
    /\ chk[p].n < bloom.k
    /\ chk' = [chk EXCEPT ![p].pc = "read",
                          ![p].hash = hashfp(bloom.hash[chk[p].n], chk[p].s)]
    /\ UNCHANGED <<bloom, heap, added, ret, bloom2, ret2>>

\* if (!(GETBIT(bloom->a, hash % bloom->m))) return false; else n++
CheckRead(p) ==
    /\ chk[p].pc = "read"
    /\ IF GETBIT(bloom.a, chk[p].hash % bloom.m) = 0
       THEN chk' = [chk EXCEPT ![p].pc = "done", ![p].val = FALSE]
       ELSE chk' = [chk EXCEPT ![p].pc = "loop", ![p].n = @ + 1]
    /\ UNCHANGED <<bloom, heap, added, ret, bloom2, ret2>>

\* n >= bloom->k: return true
CheckTrue(p) ==
    /\ chk[p].pc = "loop"
    /\ chk[p].n >= bloom.k
    /\ chk' = [chk EXCEPT ![p].pc = "done", ![p].val = TRUE]
    /\ UNCHANGED <<bloom, heap, added, ret, bloom2, ret2>>

\* The caller takes the value; its frame is gone.
CheckReturn(p) ==
    /\ chk[p].pc = "done"
    /\ chk' = [chk EXCEPT ![p] = NoFrame]
    /\ UNCHANGED <<bloom, heap, added, ret, bloom2, ret2>>

ConcNext ==
    \/ \E size \in ConcSizes, hashes \in HashLists :
         \E bytes \in calloc_bytes(ROUND(size)) : ConcNew(size, hashes, bytes)
    \/ \E s \in Keys : ConcAdd(s)
    \/ \E p \in Procs, s \in Keys : CheckCall(p, s)
    \/ \E p \in Procs : CheckHash(p)
    \/ \E p \in Procs : CheckRead(p)
    \/ \E p \in Procs : CheckTrue(p)
    \/ \E p \in Procs : CheckReturn(p)

SpecConc == Init /\ [][ConcNext]_vars

-----------------------------------------------------------------------------
(* What the properties below speak of.                                      *)

\* The indices of the bits of b's storage that are 1, padding included.
TrueBits(b) ==
    {i \in 0..(ROUND(b.m) * CHAR_BIT - 1) :
        (b.a[i \div CHAR_BIT] \div (2 ^ (i % CHAR_BIT))) % 2 = 1}

\* h_n(x) mod m
Index(b, n, x) == hashfp(b.hash[n], x) % b.m

\* { h_n(x) mod m : 0 <= n < k }
Indices(b, x) == {Index(b, n, x) : n \in 0..(b.k - 1)}

AddedBits(b) == UNION {Indices(b, x) : x \in added}

Min(S) == CHOOSE i \in S : \A j \in S : i <= j

-----------------------------------------------------------------------------
(* Properties of the single caller's filter (Spec).                         *)

\* C1: no false negatives. While the filter lives, bloom_check returns true
\* for every key bloom_add has been called with, whatever calls came after
\* that bloom_add; and a bloom_check that was made on such a key did.
NoFalseNegatives ==
    bloom.alloc =>
        /\ \A x \in added : bloom_check(bloom, x).val
        /\ (ret.op = "check" /\ ret.s \in added) => ret.val

\* bloom_check(x) has just returned on a key added among others.
NoFalseNegativesWitness ==
    /\ bloom.alloc
    /\ ret.op = "check"
    /\ ret.s \in added
    /\ Cardinality(added) >= 2
    /\ bloom.k >= 2

\* C2: monotonicity. No step of a living filter takes a bit from 1 to 0, and
\* a key bloom_check answers true for is answered true after the step too.
Monotonic ==
    [][(bloom.alloc /\ bloom'.alloc) =>
           /\ TrueBits(bloom) \subseteq TrueBits(bloom')
           /\ \A x \in Keys :
                bloom_check(bloom, x).val => bloom_check(bloom', x).val]_vars

\* A bloom_add has just set bits in a byte that held some already.
MonotonicWitness ==
    /\ bloom.alloc
    /\ ret.op = "add"
    /\ ret.changed
    /\ Cardinality(added) >= 2
    /\ \E i \in DOMAIN bloom.a :
         Cardinality({j \in TrueBits(bloom) : j \div CHAR_BIT = i}) >= 2

\* C3: bloom_check returns true exactly when the bit of every hash function
\* is 1; otherwise it returns at the first hash function, in stored order,
\* whose bit is 0, having called no later one.
CheckIffAllBits ==
    ret.op = "check" =>
        LET clear == {n \in 0..(bloom.k - 1) :
                         Index(bloom, n, ret.s) \notin TrueBits(bloom)}
        IN  /\ ret.val <=> (clear = {})
            /\ (clear = {}) => ret.evals = bloom.k
            /\ (clear # {}) => ret.evals = Min(clear) + 1

\* bloom_check returned false before the last hash function, on a filter
\* that holds keys.
CheckIffAllBitsWitness ==
    /\ ret.op = "check"
    /\ ~ret.val
    /\ ret.evals < bloom.k
    /\ added # {}

\* C4: a filter bloom_new returned and bloom_add was never called on has
\* every bit 0, and bloom_check returns false for every key.
EmptyFilter ==
    (bloom.alloc /\ added = {}) =>
        /\ \A i \in DOMAIN bloom.a : bloom.a[i] = 0
        /\ \A x \in Keys : ~bloom_check(bloom, x).val
        /\ (ret.op = "check") => ~ret.val

\* bloom_check has returned on a filter nothing was added to.
EmptyFilterWitness ==
    /\ bloom.alloc
    /\ added = {}
    /\ ret.op = "check"
    /\ ~ret.val

\* C5: bloom_add is idempotent. In every state of the filter and for every
\* key, a second bloom_add of the key leaves the bit array the first one
\* left; and a bloom_add of a key added before changed no bit.
AddIdempotent ==
    /\ bloom.alloc =>
         \A x \in Keys :
            LET a1 == bloom_add(bloom, x)
            IN  bloom_add([bloom EXCEPT !.a = a1], x) = a1
    /\ (ret.op = "add" /\ ret.again) => ~ret.changed

\* bloom_add has been called again with a key it was called with.
AddIdempotentWitness ==
    /\ bloom.alloc
    /\ ret.op = "add"
    /\ ret.again
    /\ bloom.k >= 2

\* C6: bloom_new returns NULL exactly when one of its three allocations
\* fails, and then nothing it allocated is left allocated; otherwise it
\* returns a filter with m = size, k = num_hashes and the hash functions in
\* the order of the argument list.
NewAllOrNothing ==
    ret.op = "new" =>
        /\ ~ret.val <=> ret.avail < 3
        /\ ~ret.val => (bloom = NULL /\ heap = {})
        /\ ret.val =>
             /\ bloom.alloc
             /\ heap = Blocks
             /\ bloom.m = ret.size
             /\ bloom.k = Len(ret.hashes)
             /\ DOMAIN bloom.hash = 0..(Len(ret.hashes) - 1)
             /\ \A n \in DOMAIN bloom.hash : bloom.hash[n] = ret.hashes[n + 1]
             /\ DOMAIN bloom.a = 0..(ROUND(ret.size) - 1)

\* The allocation of the hash-function table failed, after two succeeded.
NewAllOrNothingWitness ==
    /\ ret.op = "new"
    /\ ret.avail = 2
    /\ ~ret.val
    /\ Len(ret.hashes) >= 2

\* C7: bloom_check changes nothing: the bit array, m, k, the hash-function
\* table and the allocations are after the call what they were before it.
CheckObservational ==
    [][ret'.op = "check" => (bloom' = bloom /\ heap' = heap)]_vars

\* bloom_check returned false early on a filter that holds keys.
CheckObservationalWitness ==
    /\ ret.op = "check"
    /\ ~ret.val
    /\ ret.evals < bloom.k
    /\ TrueBits(bloom) # {}

\* C10: the bits that are 1 are exactly the bits h_n(x) mod m of the keys x
\* bloom_add was called with, and bloom_check answers true for y exactly
\* when every bit of y is among them.
ExactBits ==
    bloom.alloc =>
        /\ TrueBits(bloom) = AddedBits(bloom)
        /\ \A y \in Keys :
             bloom_check(bloom, y).val <=> (Indices(bloom, y) \subseteq AddedBits(bloom))
        /\ (ret.op = "check") =>
             (ret.val <=> (Indices(bloom, ret.s) \subseteq AddedBits(bloom)))

\* A false positive: bloom_check returned true for a key never added.
ExactBitsWitness ==
    /\ bloom.alloc
    /\ ret.op = "check"
    /\ ret.s \notin added
    /\ ret.val

-----------------------------------------------------------------------------
(* Properties of the two filters (SpecPair).                                *)

\* C8: determinism. Two filters built with the same m and the same hash
\* functions in the same order, and given the same bloom_add calls, hold the
\* same bit array after every call and answer bloom_check alike.
Deterministic ==
    (bloom.alloc /\ bloom2.alloc) =>
        /\ bloom.a = bloom2.a
        /\ \A x \in Keys : bloom_check(bloom, x).val = bloom_check(bloom2, x).val
        /\ (ret.op = "check") => (ret.val = ret2)

\* Both filters have answered true after two keys were added to both.
DeterministicWitness ==
    /\ bloom.alloc
    /\ bloom2.alloc
    /\ ret.op = "check"
    /\ ret.val
    /\ Cardinality(added) >= 2

-----------------------------------------------------------------------------
(* Properties of the concurrent callers (SpecConc).                         *)

\* C9: a bloom_check that ran interleaved with other bloom_check calls, and
\* with no bloom_add, returns what it returns when run alone on that bit
\* array, and the bit array is what it was when the call began.
ConcurrentChecksSafe ==
    \A p \in Procs :
        chk[p].pc = "done" =>
            /\ chk[p].val = bloom_check(bloom, chk[p].s).val
            /\ bloom.a = chk[p].a0

\* Two calls on different keys have finished together with different values.
ConcurrentChecksWitness ==
    /\ chk["p1"].pc = "done"
    /\ chk["p2"].pc = "done"
    /\ chk["p1"].s # chk["p2"].s
    /\ chk["p1"].val
    /\ ~chk["p2"].val
    /\ chk["p1"].n >= 2

====
